---- MODULE Spec2Model ----
(***************************************************************************)
(* The relay server of spacetrdr (src/server/server.js): the players       *)
(* registry and the socket.io handlers that mutate it and fan out the      *)
(* updates.  One action per handler; each action is the whole handler.     *)
(***************************************************************************)
EXTENDS Integers, Sequences, FiniteSets, TLC

\* Number of socket ids the transport hands out in one run (ids are fresh:
\* socket.io never reuses the id of a closed connection).
MaxIds == 3

Ids == 1..MaxIds

\* With the clients and the messages in flight in the state: the number of
\* socket ids handed out, and the number of undelivered messages on all the
\* connections together.
MaxNetIds == 2

MaxInFlight == 2

NetIds == 1..MaxNetIds

\* The number of times a lost connection is re-established, each time under
\* a new socket id.
MaxReconnects == 1

ReconnectIds == (MaxNetIds + 1)..(MaxNetIds + MaxReconnects)

ClientIds == NetIds \cup ReconnectIds

\* ---------------------------------------------------------------- values

\* A property that is absent from a received object reads as undefined.
Undefined == [undefined |-> TRUE]

Vec(a, b, c) == [x |-> a, y |-> b, z |-> c]

Quat(a, b, c, d) == [_x |-> a, _y |-> b, _z |-> c, _w |-> d]

\* What a client may put in the fields of a playerMovement message.  The
\* server reads the three fields and nothing else, so the inputs are
\* objects with these three fields; a field may be out of range or (for the
\* quaternion) not of unit length.
Positions == {Vec(0, 0, 0), Vec(1, 2, 3)}

Quaternions == {Quat(0, 0, 0, 1), Quat(2, 0, 0, 0)}

Velocities == {Vec(0, 0, 0), Vec(0, 0, 0 - 900)}

\* A message may also lack a field (here the velocity) and carry more than
\* the three, an id of its own for one: the handler copies position,
\* quaternion and velocity and reads nothing else.
ForgedMovement ==
    [id |-> 0, position |-> Vec(1, 2, 3), quaternion |-> Quat(2, 0, 0, 0),
     velocity |-> Undefined]

MovementData ==
    [position : Positions, quaternion : Quaternions, velocity : Velocities]
        \cup {ForgedMovement}

\* ---------------------------------------------------------------- state

VARIABLES
    players,    \* server.js:17  the registry: socket id -> player state
    sockets,    \* the transport's set of connected sockets (open connections)
    closed,     \* ids of the connections that were open and are closed
    event,      \* the event the server handled last
    sent,       \* what that handler emitted, in order
    serverUp,   \* the server process is running
    lastMove,   \* per open connection, the last playerMovement message handled
    inbox,          \* per client, the server's messages not yet delivered to it
    clientPlayers,  \* game.js:6  per client, this.players: remote id -> ship
    scene,          \* per client and remote id, the ships of that id in this.scene
    handled         \* the message a client handled last

clientVars == <<inbox, clientPlayers, scene, handled>>

vars == <<players, sockets, closed, event, sent, serverUp, lastMove,
          inbox, clientPlayers, scene, handled>>

\* ---------------------------------------------------------------- helpers

\* Variant: the default orientation is the zero quaternion, not the identity.
DefaultPlayerZeroQuat(id) ==
    [id |-> id,
     position |-> Vec(0, 0, 0),
     quaternion |-> Quat(0, 0, 0, 0),
     velocity |-> Vec(0, 0, 0)]

\* server.js:23-28
DefaultPlayer(id) ==
    [id |-> id,
     position |-> Vec(0, 0, 0),
     quaternion |-> Quat(0, 0, 0, 1),
     velocity |-> Vec(0, 0, 0)]

\* Variant: the registry is assigned a new object that holds the new entry
\* alone.
AddPlayerReplace(reg, id) ==
    [k \in {id} |-> DefaultPlayer(id)]

\* Variant: every entry is set to the default state when a player joins.
AddPlayerReset(reg, id) ==
    [k \in DOMAIN reg \cup {id} |-> DefaultPlayer(k)]

\* players[socket.id] = {...}
AddPlayer(reg, id) ==
    [k \in DOMAIN reg \cup {id} |-> IF k = id THEN DefaultPlayer(id) ELSE reg[k]]

\* Variant: a merge (as Object.assign would do for a missing property): a
\* field the message does not carry keeps its stored value.
MovedPlayerMerge(p, movementData) ==
    [p EXCEPT !.position = IF movementData.position = Undefined
                           THEN p.position ELSE movementData.position,
              !.quaternion = IF movementData.quaternion = Undefined
                             THEN p.quaternion ELSE movementData.quaternion,
              !.velocity = IF movementData.velocity = Undefined
                           THEN p.velocity ELSE movementData.velocity]

\* Variant: the properties of the message are copied as they come
\* (Object.assign), an id among them.
MovedPlayerAssign(p, movementData) ==
    [p EXCEPT !.id = IF "id" \in DOMAIN movementData THEN movementData.id ELSE p.id,
              !.position = movementData.position,
              !.quaternion = movementData.quaternion,
              !.velocity = movementData.velocity]

\* server.js:38-40: three field assignments on the stored object
MovedPlayer(p, movementData) ==
    [p EXCEPT !.position = movementData.position,
              !.quaternion = movementData.quaternion,
              !.velocity = movementData.velocity]

\* Variant: the position object is one shared object, so every entry shows
\* the position that was written last.
UpdatePlayerShared(reg, id, movementData) ==
    [k \in DOMAIN reg |->
        IF k = id THEN MovedPlayer(reg[k], movementData)
        ELSE [reg[k] EXCEPT !.position = movementData.position]]

\* server.js:38-40: the assignments go to players[socket.id] and to no
\* other entry
UpdatePlayer(reg, id, movementData) ==
    [reg EXCEPT ![id] = MovedPlayer(reg[id], movementData)]

\* Variant: the entry is not deleted.
DeletePlayerKeep(reg, id) ==
    reg

\* Variant: the registry is emptied.
DeletePlayerAll(reg, id) ==
    << >>

\* delete players[socket.id]: removes the key if it is there, else nothing
DeletePlayer(reg, id) ==
    [k \in DOMAIN reg \ {id} |-> reg[k]]

\* Variant: io.emit in place of socket.emit.
SocketEmitToAll(id, ev, payload) ==
    [event |-> ev, to |-> sockets \cup {id}, payload |-> payload]

\* socket.emit(ev, payload): to this socket only
SocketEmit(id, ev, payload) ==
    [event |-> ev, to |-> {id}, payload |-> payload]

\* Variant: io.emit in place of socket.broadcast.emit.
BroadcastEmitToAll(conns, id, ev, payload) ==
    [event |-> ev, to |-> conns, payload |-> payload]

\* socket.broadcast.emit(ev, payload): every connected socket but this one
BroadcastEmit(conns, id, ev, payload) ==
    [event |-> ev, to |-> conns \ {id}, payload |-> payload]

\* Variant: socket.emit on the closed socket in place of io.emit: it reaches
\* no connection.
IoEmitToNobody(conns, ev, payload) ==
    [event |-> ev, to |-> {}, payload |-> payload]

\* io.emit(ev, payload): every connected socket
IoEmit(conns, ev, payload) ==
    [event |-> ev, to |-> conns, payload |-> payload]

\* Variant: the snapshot is sent before the new entry is stored.
ConnectionEmitsEarly(before, after, conns, id) ==
    << SocketEmit(id, "currentPlayers", before),
       BroadcastEmit(conns, id, "newPlayer", after[id]) >>

\* Variant: the newPlayer notice carries the whole registry.
ConnectionEmitsRegistry(before, after, conns, id) ==
    << SocketEmit(id, "currentPlayers", after),
       BroadcastEmit(conns, id, "newPlayer", after) >>

\* Variant: the notice of the new player goes to every connection.
ConnectionEmitsNoticeToAll(before, after, conns, id) ==
    << SocketEmit(id, "currentPlayers", after),
       IoEmit(conns, "newPlayer", after[id]) >>

\* Variant: the other clients are not told of the new player.
ConnectionEmitsNoNotice(before, after, conns, id) ==
    << SocketEmit(id, "currentPlayers", after) >>

\* server.js:30-34: the two emits of the connection callback, both made
\* after the entry was stored (before: the registry when the callback
\* started, after: the registry with the new entry).
ConnectionEmits(before, after, conns, id) ==
    << SocketEmit(id, "currentPlayers", after),
       BroadcastEmit(conns, id, "newPlayer", after[id]) >>

\* Variant: the broadcast is made before the assignments.
MovementEmitsStale(before, after, conns, id) ==
    << BroadcastEmit(conns, id, "playerMoved", before[id]) >>

\* Variant: the broadcast is made between the assignments: it carries the
\* new position and quaternion with the velocity stored before.
MovementEmitsHalf(before, after, conns, id) ==
    << BroadcastEmit(conns, id, "playerMoved",
                     [after[id] EXCEPT !.velocity = before[id].velocity]) >>

\* server.js:42-43: the one emit of the playerMovement callback, made after
\* the three assignments (before: the registry when the callback started,
\* after: the registry with the entry updated).
MovementEmits(before, after, conns, id) ==
    << BroadcastEmit(conns, id, "playerMoved", after[id]) >>

\* ---------------------------------------------------------------- actions

Init ==
    /\ players = << >>
    /\ sockets = {}
    /\ closed = {}
    /\ event = [name |-> "listen"]
    /\ sent = << >>
    /\ serverUp = TRUE
    /\ lastMove = << >>
    /\ inbox = << >>
    /\ clientPlayers = << >>
    /\ scene = << >>
    /\ handled = [event |-> "none"]

\* The body of the io.on("connection", ...) callback, server.js:19-34.
ConnectionHandler(id) ==
    /\ event' = [name |-> "connection", id |-> id, known |-> id \in DOMAIN players]
    /\ players' = AddPlayer(players, id)
    /\ sent' = ConnectionEmits(players, players', sockets', id)
    /\ UNCHANGED <<serverUp, lastMove>>

\* A client connects.  The transport has added the socket, with a fresh id,
\* before the callback runs.
OnConnection(id) ==
    /\ serverUp
    /\ id \notin sockets \cup closed
    /\ sockets' = sockets \cup {id}
    /\ UNCHANGED closed
    /\ ConnectionHandler(id)
    /\ UNCHANGED clientVars

\* The body of socket.on("playerMovement", ...), server.js:37-44.  When the
\* registry has no entry for the socket, players[socket.id] is undefined and
\* the first assignment throws a TypeError before anything is stored or
\* emitted; nothing catches it, which ends the server process.
PlayerMovementHandler(id, movementData) ==
    /\ event' = [name |-> "playerMovement", id |-> id,
                 known |-> id \in DOMAIN players, data |-> movementData]
    /\ IF id \in DOMAIN players
       THEN /\ players' = UpdatePlayer(players, id, movementData)
            /\ sent' = MovementEmits(players, players', sockets, id)
            /\ lastMove' = [k \in DOMAIN lastMove \cup {id} |->
                               IF k = id THEN movementData ELSE lastMove[k]]
            /\ UNCHANGED serverUp
       ELSE /\ serverUp' = FALSE
            /\ sent' = << >>
            /\ UNCHANGED <<players, lastMove>>

\* Variant: the callback reads a field of the entry before deleting it, and
\* throws when the entry is absent.
DisconnectHandlerThrows(id) ==
    /\ event' = [name |-> "disconnect", id |-> id, known |-> id \in DOMAIN players]
    /\ IF id \in DOMAIN players
       THEN /\ players' = DeletePlayer(players, id)
            /\ sent' = << IoEmit(sockets', "playerDisconnected", id) >>
            /\ UNCHANGED serverUp
       ELSE /\ serverUp' = FALSE
            /\ sent' = << >>
            /\ UNCHANGED players
    /\ lastMove' = [k \in DOMAIN lastMove \ {id} |-> lastMove[k]]

\* The body of socket.on("disconnect", ...), server.js:47-51.
DisconnectHandler(id) ==
    /\ event' = [name |-> "disconnect", id |-> id, known |-> id \in DOMAIN players]
    /\ players' = DeletePlayer(players, id)
    /\ sent' = << IoEmit(sockets', "playerDisconnected", id) >>
    /\ lastMove' = [k \in DOMAIN lastMove \ {id} |-> lastMove[k]]
    /\ UNCHANGED serverUp

\* A playerMovement message arrives on an open connection.
OnPlayerMovement(id, movementData) ==
    /\ serverUp
    /\ id \in sockets
    /\ UNCHANGED <<sockets, closed>>
    /\ PlayerMovementHandler(id, movementData)
    /\ UNCHANGED clientVars

\* The transport reports that an open connection has closed.  It has removed
\* the socket from the connected set before the callback runs.
OnDisconnect(id) ==
    /\ serverUp
    /\ id \in sockets
    /\ sockets' = sockets \ {id}
    /\ closed' = closed \cup {id}
    /\ DisconnectHandler(id)
    /\ UNCHANGED clientVars

Next ==
    \/ \E id \in Ids : OnConnection(id)
    \/ \E id \in Ids, movementData \in MovementData : OnPlayerMovement(id, movementData)
    \/ \E id \in Ids : OnDisconnect(id)

\* The program under the transport's contract: per id, connection, then
\* messages, then one disconnect.
Spec == Init /\ [][Next]_vars

\* ------------------------------------------------- outside the contract

\* The playerMovement callback of a socket runs after its disconnect.
StrayPlayerMovement(id, movementData) ==
    /\ serverUp
    /\ id \in closed
    /\ UNCHANGED <<sockets, closed>>
    /\ PlayerMovementHandler(id, movementData)
    /\ UNCHANGED clientVars

\* The disconnect callback of a socket runs a second time.
StrayDisconnect(id) ==
    /\ serverUp
    /\ id \in closed
    /\ UNCHANGED <<sockets, closed>>
    /\ DisconnectHandler(id)
    /\ UNCHANGED clientVars

NextStray ==
    \/ \E id \in Ids : OnConnection(id)
    \/ \E id \in Ids, movementData \in MovementData : OnPlayerMovement(id, movementData)
    \/ \E id \in Ids : OnDisconnect(id)
    \/ \E id \in Ids, movementData \in MovementData : StrayPlayerMovement(id, movementData)
    \/ \E id \in Ids : StrayDisconnect(id)

\* The same handlers driven by a transport that may also run a closed
\* socket's callbacks: the events sections 4.1 and 7 of the design call
\* unknown-id mutation and duplicate disconnect.
SpecStray == Init /\ [][NextStray]_vars

\* ------------------------------------------------- server and clients

\* What the playing client sends (game.js:1005-1021): all three fields, read
\* from its ship.
ClientMovementData ==
    {[position |-> Vec(1, 2, 3), quaternion |-> Quat(0, 0, 0, 1),
      velocity |-> Vec(0, 0, 0)]}

\* A new THREE.Mesh: at the origin, not rotated.
NewShip == [position |-> Vec(0, 0, 0), quaternion |-> Quat(0, 0, 0, 1)]

\* ship.position.set(...) and ship.quaternion.copy(...) from a player state
PlacedShip(playerInfo) ==
    [position |-> playerInfo.position, quaternion |-> playerInfo.quaternion]

\* The ships of remote id k in a scene.
ShipsOf(sc, k) == IF k \in DOMAIN sc THEN sc[k] ELSE 0

\* game.js:767-778 createOtherPlayerShip: a new ship is added to the scene
\* and this.players[playerId] is set to it (st: a client's players map and
\* scene).
CreateOtherPlayerShip(st, playerId) ==
    [players |-> [k \in DOMAIN st.players \cup {playerId} |->
                     IF k = playerId THEN NewShip ELSE st.players[k]],
     scene |-> [k \in DOMAIN st.scene \cup {playerId} |->
                   IF k = playerId THEN ShipsOf(st.scene, k) + 1 ELSE st.scene[k]]]

\* Variant: the client's own id is not skipped.
OnCurrentPlayersWithSelf(st, me, snapshot) ==
    LET new == DOMAIN snapshot
    IN  [players |-> [k \in DOMAIN st.players \cup new |->
                         IF k \in new THEN PlacedShip(snapshot[k]) ELSE st.players[k]],
         scene |-> [k \in DOMAIN st.scene \cup new |->
                       IF k \in new THEN ShipsOf(st.scene, k) + 1 ELSE st.scene[k]]]

\* game.js:814-834 "currentPlayers": for every id of the snapshot but the
\* client's own, createOtherPlayerShip(id), then the ship is placed.
OnCurrentPlayers(st, me, snapshot) ==
    LET new == DOMAIN snapshot \ {me}
    IN  [players |-> [k \in DOMAIN st.players \cup new |->
                         IF k \in new THEN PlacedShip(snapshot[k]) ELSE st.players[k]],
         scene |-> [k \in DOMAIN st.scene \cup new |->
                       IF k \in new THEN ShipsOf(st.scene, k) + 1 ELSE st.scene[k]]]

\* game.js:837-839 "newPlayer"
OnNewPlayer(st, playerInfo) ==
    CreateOtherPlayerShip(st, playerInfo.id)

\* Variant: a ship is made for an id that is not known yet.
OnPlayerMovedCreate(st, playerInfo) ==
    LET known == IF playerInfo.id \in DOMAIN st.players
                 THEN st ELSE CreateOtherPlayerShip(st, playerInfo.id)
    IN  [known EXCEPT !.players[playerInfo.id] = PlacedShip(playerInfo)]

\* game.js:842-859 "playerMoved": the ship of a known id is placed; a
\* message about an unknown id is dropped.
OnPlayerMoved(st, playerInfo) ==
    IF playerInfo.id \in DOMAIN st.players
    THEN [st EXCEPT !.players[playerInfo.id] = PlacedShip(playerInfo)]
    ELSE st

\* Variant: the ship is taken out of the scene but the entry stays.
OnPlayerDisconnectedKeep(st, playerId) ==
    IF playerId \in DOMAIN st.players
    THEN [st EXCEPT !.scene[playerId] = ShipsOf(st.scene, playerId) - 1]
    ELSE st

\* game.js:862-867 "playerDisconnected": the ship of a known id is removed
\* from the scene and its entry deleted; an unknown id is dropped.
OnPlayerDisconnected(st, playerId) ==
    IF playerId \in DOMAIN st.players
    THEN [players |-> [k \in DOMAIN st.players \ {playerId} |-> st.players[k]],
          scene |-> [st.scene EXCEPT ![playerId] = ShipsOf(st.scene, playerId) - 1]]
    ELSE st

\* The listener of game.js:812-868 that a message runs.
ClientHandle(st, me, m) ==
    CASE m.event = "currentPlayers" -> OnCurrentPlayers(st, me, m.payload)
      [] m.event = "newPlayer" -> OnNewPlayer(st, m.payload)
      [] m.event = "playerMoved" -> OnPlayerMoved(st, m.payload)
      [] m.event = "playerDisconnected" -> OnPlayerDisconnected(st, m.payload)

\* The id a message is about (a snapshot is about its keys).
About(m) ==
    CASE m.event = "currentPlayers" -> DOMAIN m.payload
      [] m.event = "playerDisconnected" -> {m.payload}
      [] OTHER -> {m.payload.id}

\* The emissions of outs addressed to connection c, in order.
MessagesTo(c, outs) ==
    LET mine == SelectSeq(outs, LAMBDA m : c \in m.to)
    IN  [i \in 1..Len(mine) |-> [event |-> mine[i].event, payload |-> mine[i].payload]]

\* The transport: each connection is a reliable ordered channel; what the
\* handler emitted is appended to the inbox of every addressee that is
\* connected, and a closed connection delivers nothing more.
Transmit ==
    /\ inbox' = [c \in DOMAIN inbox \cup sockets' |->
                    IF c \in sockets'
                    THEN (IF c \in DOMAIN inbox THEN inbox[c] ELSE << >>)
                             \o MessagesTo(c, sent')
                    ELSE << >>]

RECURSIVE SumLen(_, _)
\* The number of messages in the inboxes of the connections in cs.
SumLen(ib, cs) ==
    IF cs = {} THEN 0
    ELSE LET c == CHOOSE c \in cs : TRUE
         IN  Len(ib[c]) + SumLen(ib, cs \ {c})

\* The undelivered messages.
InFlight == SumLen(inbox, DOMAIN inbox)

\* The connections have room for n more messages.
InboxRoom(n) == InFlight + n <= MaxInFlight

\* A browser opens the page: new SpaceGame() (game.js:5-7) starts with an
\* empty players map and connects; the server handles the connection.
NetConnection(id) ==
    /\ serverUp
    /\ id \in NetIds
    /\ id \notin sockets \cup closed
    /\ InboxRoom(Cardinality(sockets) + 1)
    /\ sockets' = sockets \cup {id}
    /\ UNCHANGED closed
    /\ ConnectionHandler(id)
    /\ Transmit
    /\ clientPlayers' = [c \in DOMAIN clientPlayers \cup {id} |->
                            IF c = id THEN << >> ELSE clientPlayers[c]]
    /\ scene' = [c \in DOMAIN scene \cup {id} |-> IF c = id THEN << >> ELSE scene[c]]
    /\ UNCHANGED handled

\* A client sends its ship's state (game.js:1005) and the server handles it.
NetPlayerMovement(id, movementData) ==
    /\ serverUp
    /\ id \in sockets
    /\ InboxRoom(Cardinality(sockets) - 1)
    /\ UNCHANGED <<sockets, closed>>
    /\ PlayerMovementHandler(id, movementData)
    /\ Transmit
    /\ UNCHANGED <<clientPlayers, scene, handled>>

\* A connection closes and the server handles the disconnect.
NetDisconnect(id) ==
    /\ serverUp
    /\ id \in sockets
    /\ InboxRoom(Cardinality(sockets) - 1)
    /\ sockets' = sockets \ {id}
    /\ closed' = closed \cup {id}
    /\ DisconnectHandler(id)
    /\ Transmit
    /\ UNCHANGED <<clientPlayers, scene, handled>>

\* A connected client receives the next message of its connection and runs
\* the listener for it.
ClientReceive(c) ==
    /\ c \in sockets
    /\ inbox[c] # << >>
    /\ LET m == Head(inbox[c])
           st == ClientHandle([players |-> clientPlayers[c], scene |-> scene[c]], c, m)
       IN  /\ clientPlayers' = [clientPlayers EXCEPT ![c] = st.players]
           /\ scene' = [scene EXCEPT ![c] = st.scene]
           /\ handled' = [event |-> m.event, client |-> c, about |-> About(m),
                          known |-> About(m) \cap DOMAIN clientPlayers[c]]
    /\ inbox' = [inbox EXCEPT ![c] = Tail(inbox[c])]
    /\ UNCHANGED <<players, sockets, closed, event, sent, serverUp, lastMove>>

NextNet ==
    \/ \E id \in NetIds : NetConnection(id)
    \/ \E id \in NetIds, movementData \in ClientMovementData :
           NetPlayerMovement(id, movementData)
    \/ \E id \in NetIds : NetDisconnect(id)
    \/ \E c \in NetIds : ClientReceive(c)

\* The server with its clients, over reliable ordered connections, each
\* client connecting once.
SpecNet == Init /\ [][NextNet]_vars

\* A client handles every message that reaches it: the browser's event
\* loop runs the listener of each message received.
SpecNetFair == SpecNet /\ \A c \in NetIds : WF_vars(ClientReceive(c))

\* ------------------------------------------------- reconnecting clients

\* The socket.io client of game.js:7 (io() with its defaults) re-establishes
\* a lost connection by itself.  The page and its SpaceGame object live on:
\* this.players and this.scene are kept, the listeners stay registered, and
\* the server, which has handled the disconnect of the old socket, sees a
\* new connection with a new id and answers it like any other.
NetReconnect(old, new) ==
    /\ serverUp
    /\ old \in DOMAIN clientPlayers
    /\ old \in closed
    /\ new \in ReconnectIds
    /\ new \notin sockets \cup closed
    /\ InboxRoom(Cardinality(sockets) + 1)
    /\ sockets' = sockets \cup {new}
    /\ UNCHANGED closed
    /\ ConnectionHandler(new)
    /\ Transmit
    /\ clientPlayers' = [c \in (DOMAIN clientPlayers \ {old}) \cup {new} |->
                            IF c = new THEN clientPlayers[old] ELSE clientPlayers[c]]
    /\ scene' = [c \in (DOMAIN scene \ {old}) \cup {new} |->
                    IF c = new THEN scene[old] ELSE scene[c]]
    /\ UNCHANGED handled

NextReconnect ==
    \/ \E id \in NetIds : NetConnection(id)
    \/ \E id \in ClientIds, movementData \in ClientMovementData :
           NetPlayerMovement(id, movementData)
    \/ \E id \in ClientIds : NetDisconnect(id)
    \/ \E c \in ClientIds : ClientReceive(c)
    \/ \E old \in ClientIds, new \in ReconnectIds : NetReconnect(old, new)

\* The server with clients that may lose their connection and come back.
SpecReconnect == Init /\ [][NextReconnect]_vars

\* ------------------------------------------------- any message to a client

\* The messages about one id that the listeners for playerMoved and
\* playerDisconnected may be given.
StrayMessages ==
    [event : {"playerMoved"},
     payload : {[MovedPlayer(DefaultPlayer(id), movementData) EXCEPT !.id = id] :
                   id \in NetIds, movementData \in ClientMovementData}]
        \cup [event : {"playerDisconnected"}, payload : NetIds]

\* A connected client is given a message about an id that is not a key of
\* its players map (a repeated notice, or one that overtook the introduction
\* of the id): its listener runs all the same.
StrayDelivery(c, m) ==
    /\ c \in sockets
    /\ About(m) \cap DOMAIN clientPlayers[c] = {}
    /\ LET st == ClientHandle([players |-> clientPlayers[c], scene |-> scene[c]], c, m)
       IN  /\ clientPlayers' = [clientPlayers EXCEPT ![c] = st.players]
           /\ scene' = [scene EXCEPT ![c] = st.scene]
           /\ handled' = [event |-> m.event, client |-> c, about |-> About(m),
                          known |-> About(m) \cap DOMAIN clientPlayers[c]]
    /\ UNCHANGED <<players, sockets, closed, event, sent, serverUp, lastMove, inbox>>

NextListeners ==
    \/ \E id \in NetIds : NetConnection(id)
    \/ \E id \in NetIds, movementData \in ClientMovementData :
           NetPlayerMovement(id, movementData)
    \/ \E id \in NetIds : NetDisconnect(id)
    \/ \E c \in NetIds : ClientReceive(c)
    \/ \E c \in NetIds, m \in StrayMessages : StrayDelivery(c, m)

\* The server and its clients, the clients' listeners being run also on
\* messages about ids they do not know.
SpecListeners == Init /\ [][NextListeners]_vars

\* ---------------------------------------------------------------- claims

\* Positions in sent of the emissions of one event name.
Emitted(ev) == {i \in DOMAIN sent : sent[i].event = ev}

\* C1: the registry starts empty, and after every connection, movement
\* update and disconnect its key set is exactly the set of open connections.
C1_RegistryKeysAreOpenConnections ==
    /\ event.name = "listen" => DOMAIN players = {}
    /\ DOMAIN players = sockets

C1_Witness ==
    /\ event.name = "disconnect"
    /\ sockets # {}
    /\ closed # {}

\* C2: a movement update replaces the stored position, orientation and
\* velocity of its id by exactly the supplied values, whatever they and the
\* stored ones were, and leaves the id field as it was.
C2_MovementIsFullReplace ==
    [][event'.name = "playerMovement" =>
          /\ event'.id \in DOMAIN players
          /\ players'[event'.id] = [id |-> players[event'.id].id,
                                    position |-> event'.data.position,
                                    quaternion |-> event'.data.quaternion,
                                    velocity |-> event'.data.velocity]]_vars

C2_Witness ==
    /\ event.name = "playerMovement"
    /\ event.data.velocity = Undefined
    /\ event.data.quaternion = Quat(2, 0, 0, 0)
    /\ players[event.id].position = Vec(1, 2, 3)

\* C3: a movement update of id emits one playerMoved, addressed to every
\* other open connection, and emits nothing addressed to id.
C3_MovedGoesToOthersOnly ==
    event.name = "playerMovement" =>
        /\ Len(sent) = 1
        /\ sent[1].event = "playerMoved"
        /\ sent[1].to = sockets \ {event.id}
        /\ \A i \in DOMAIN sent : event.id \notin sent[i].to

C3_Witness ==
    /\ event.name = "playerMovement"
    /\ Cardinality(sockets \ {event.id}) >= 2

\* C4: a disconnect of id removes id's entry and emits one
\* playerDisconnected whose payload is the bare id, addressed to all the
\* remaining connections (none when none is left) and not to id.
C4_DisconnectRemovesAndNotifies ==
    event.name = "disconnect" =>
        /\ event.known
        /\ event.id \notin DOMAIN players
        /\ Len(sent) = 1
        /\ sent[1].event = "playerDisconnected"
        /\ sent[1].payload = event.id
        /\ sent[1].to = sockets
        /\ event.id \notin sent[1].to

C4_Witness ==
    /\ event.name = "disconnect"
    /\ event.known
    /\ Cardinality(sockets) >= 2

\* C5: a connection emits exactly one currentPlayers, addressed to the new
\* socket only; no other event emits a currentPlayers.
C5_CurrentPlayersToNewClientOnly ==
    /\ \A i \in Emitted("currentPlayers") :
           event.name = "connection" /\ sent[i].to = {event.id}
    /\ event.name = "connection" => Cardinality(Emitted("currentPlayers")) = 1

C5_Witness ==
    /\ event.name = "connection"
    /\ Cardinality(sockets) >= 2

\* C6: the currentPlayers snapshot of a connection is the registry with the
\* new default entry in it: every open connection's stored state, and the
\* new socket's own default entry.
C6_SnapshotIsRegistryAfterInsert ==
    event.name = "connection" =>
        \A i \in Emitted("currentPlayers") :
            /\ DOMAIN sent[i].payload = sockets
            /\ \A k \in sockets : sent[i].payload[k] = players[k]
            /\ sent[i].payload[event.id] =
                   [id |-> event.id, position |-> Vec(0, 0, 0),
                    quaternion |-> Quat(0, 0, 0, 1), velocity |-> Vec(0, 0, 0)]

C6_Witness ==
    /\ event.name = "connection"
    /\ Emitted("currentPlayers") # {}
    /\ \E k \in sockets \ {event.id} : players[k].position = Vec(1, 2, 3)

\* C7: a connection emits one newPlayer, addressed to every other open
\* connection and not to the new socket, whose payload is the new entry
\* alone: the new id with the default state.
C7_NewPlayerGoesToOthers ==
    event.name = "connection" =>
        /\ Cardinality(Emitted("newPlayer")) = 1
        /\ \A i \in Emitted("newPlayer") :
               /\ sent[i].to = sockets \ {event.id}
               /\ sent[i].payload =
                      [id |-> event.id, position |-> Vec(0, 0, 0),
                       quaternion |-> Quat(0, 0, 0, 1), velocity |-> Vec(0, 0, 0)]

C7_Witness ==
    /\ event.name = "connection"
    /\ closed # {}
    /\ \E k \in sockets \ {event.id} : players[k].quaternion = Quat(2, 0, 0, 0)

\* C8: a connection with a fresh id stores for it an entry in the default
\* state: position (0,0,0), orientation (0,0,0,1), velocity (0,0,0).
C8_ConnectStoresDefault ==
    (event.name = "connection" /\ ~event.known) =>
        /\ event.id \in DOMAIN players
        /\ players[event.id].position = Vec(0, 0, 0)
        /\ players[event.id].quaternion = Quat(0, 0, 0, 1)
        /\ players[event.id].velocity = Vec(0, 0, 0)

C8_Witness ==
    /\ event.name = "connection"
    /\ ~event.known
    /\ \E k \in sockets \ {event.id} : players[k].velocity = Undefined

\* C9: a movement update for an id that has no entry in the registry is a
\* no-op: the server keeps running.
C9_UnknownIdMovementIsNoOp ==
    (event.name = "playerMovement" /\ ~event.known) => serverUp

\* C10: the first disconnect of an id removes its entry, and only that one,
\* and emits one notice; a further disconnect of the same id leaves the
\* registry as it is and raises no error.
C10_DisconnectTwice ==
    [][event'.name = "disconnect" =>
          /\ serverUp'
          /\ IF event'.known
             THEN /\ event'.id \in DOMAIN players
                  /\ DOMAIN players' = DOMAIN players \ {event'.id}
                  /\ \A k \in DOMAIN players' : players'[k] = players[k]
                  /\ Len(sent') = 1
             ELSE players' = players]_vars

C10_Witness ==
    /\ event.name = "disconnect"
    /\ ~event.known
    /\ event.id \in closed
    /\ sockets # {}
    /\ serverUp

\* C11: a disconnect for an id whose entry is already absent is a complete
\* no-op: it emits no playerDisconnected.
C11_DuplicateDisconnectEmitsNothing ==
    (event.name = "disconnect" /\ ~event.known) =>
        Emitted("playerDisconnected") = {}

\* C12: a movement update of one id leaves every other entry as it was, so
\* the stored state of each id is that id's own last update.
C12_NoCrossContamination ==
    [][/\ event'.name = "playerMovement" =>
              \A k \in DOMAIN players \ {event'.id} :
                  k \in DOMAIN players' /\ players'[k] = players[k]
       /\ \A k \in DOMAIN lastMove' :
              /\ players'[k].position = lastMove'[k].position
              /\ players'[k].quaternion = lastMove'[k].quaternion
              /\ players'[k].velocity = lastMove'[k].velocity]_vars

C12_Witness ==
    /\ event.name = "playerMovement"
    /\ \E k \in DOMAIN lastMove \ {event.id} :
           /\ lastMove[k].position # event.data.position
           /\ lastMove[k].velocity # event.data.velocity

\* C13: the payload of every playerMoved is the sender's full state as
\* stored after the update: the sender's id with the position, orientation
\* and velocity just supplied.
C13_MovedPayloadIsStoredState ==
    /\ \A i \in Emitted("playerMoved") :
           /\ event.name = "playerMovement"
           /\ sent[i].payload = [id |-> event.id,
                                 position |-> event.data.position,
                                 quaternion |-> event.data.quaternion,
                                 velocity |-> event.data.velocity]
           /\ sent[i].payload = players[event.id]
    /\ event.name = "playerMovement" => Emitted("playerMoved") # {}

C13_Witness ==
    /\ event.name = "playerMovement"
    /\ Emitted("playerMoved") # {}
    /\ sockets \ {event.id} # {}
    /\ event.data.position = Vec(1, 2, 3)
    /\ event.data.velocity = Vec(0, 0, 0 - 900)

\* An entry of id k that is whole: the default state when k has sent no
\* update, else the three values of k's last update together.
WholeEntry(k, e) ==
    IF k \in DOMAIN lastMove
    THEN e = [id |-> k, position |-> lastMove[k].position,
              quaternion |-> lastMove[k].quaternion,
              velocity |-> lastMove[k].velocity]
    ELSE e = [id |-> k, position |-> Vec(0, 0, 0),
              quaternion |-> Quat(0, 0, 0, 1), velocity |-> Vec(0, 0, 0)]

\* C14: every handler mutates and emits in one step, so what a snapshot or
\* a broadcast shows is never half-made: every entry shown is whole, a
\* snapshot has exactly the open connections, and a removed id has no entry.
C14_NoPartialStateExposed ==
    /\ \A k \in DOMAIN players : WholeEntry(k, players[k])
    /\ \A i \in Emitted("currentPlayers") :
           /\ DOMAIN sent[i].payload = sockets
           /\ \A k \in DOMAIN sent[i].payload : WholeEntry(k, sent[i].payload[k])
    /\ \A i \in Emitted("newPlayer") : WholeEntry(event.id, sent[i].payload)
    /\ \A i \in Emitted("playerMoved") : WholeEntry(event.id, sent[i].payload)
    /\ \A i \in Emitted("playerDisconnected") :
           sent[i].payload \notin DOMAIN players

C14_Witness ==
    /\ event.name = "playerMovement"
    /\ Cardinality(sockets) >= 2
    /\ event.data.quaternion = Quat(2, 0, 0, 0)
    /\ event.data.velocity = Vec(0, 0, 0 - 900)

\* C15: under the transport's contract the registry has an entry for id
\* whenever the server handles a playerMovement from id.
C15_MovementOnlyForPresentId ==
    event.name = "playerMovement" =>
        /\ event.known
        /\ event.id \in sockets
        /\ serverUp

C15_Witness ==
    /\ event.name = "playerMovement"
    /\ event.known
    /\ closed # {}

\* C16: the id field of every entry is the key it is stored under, and no
\* step changes it, whatever a movement message carries.
C16_IdFieldIsKey ==
    [][/\ \A k \in DOMAIN players' : players'[k].id = k
       /\ \A k \in DOMAIN players \cap DOMAIN players' :
              players'[k].id = players[k].id]_vars

C16_Witness ==
    /\ event.name = "playerMovement"
    /\ event.known
    /\ event.data = ForgedMovement

\* C19: an entry's stored state changes only by a movement update of its own
\* id: connections and disconnects of other ids, and the server by itself,
\* leave it as it was.
C19_StateChangesOnlyByOwnMovement ==
    [][\A k \in DOMAIN players \cap DOMAIN players' :
           players'[k] # players[k] =>
               (event'.name = "playerMovement" /\ event'.id = k)]_vars

C19_Witness ==
    /\ event.name = "disconnect"
    /\ \E k \in sockets : k \in DOMAIN lastMove /\ players[k].position = Vec(1, 2, 3)

\* C20: an entry leaves the registry only by the disconnect of its own
\* connection; a connection that is open always has its entry.
C20_RemovedOnlyByOwnDisconnect ==
    [][/\ \A k \in DOMAIN players \ DOMAIN players' :
              event'.name = "disconnect" /\ event'.id = k /\ k \notin sockets'
       /\ sockets' \subseteq DOMAIN players']_vars

C20_Witness ==
    /\ event.name = "disconnect"
    /\ Cardinality(DOMAIN players) >= 2
    /\ DOMAIN lastMove # {}

\* A playerDisconnected about x is still on its way to client p.
Pending(p, x) ==
    \E i \in DOMAIN inbox[p] :
        inbox[p][i].event = "playerDisconnected" /\ inbox[p][i].payload = x

\* C17: when a player x has disconnected, every peer p that stays connected
\* eventually has received playerDisconnected(x), and from then on holds no
\* ship for x.
C17_PeersDropDisconnectedShip ==
    /\ \A x \in NetIds : \A p \in NetIds \ {x} :
           (x \in closed /\ p \in sockets) ~>
               (p \notin sockets \/ (~Pending(p, x) /\ x \notin DOMAIN clientPlayers[p]))
    /\ [](\A x \in closed : \A p \in sockets :
              ~Pending(p, x) => x \notin DOMAIN clientPlayers[p])

C17_Witness ==
    /\ handled.event = "playerDisconnected"
    /\ handled.client \in sockets
    /\ handled.about \subseteq closed
    /\ handled.known # {}
    /\ handled.about \cap DOMAIN clientPlayers[handled.client] = {}

\* C18: when every message sent has been delivered and handled, the remote
\* players of each connected client are the keys of the server's registry
\* but the client's own id.
C18_ClientsAgreeWithRegistry ==
    (\A c \in sockets : inbox[c] = << >>) =>
        \A c \in sockets : DOMAIN clientPlayers[c] = DOMAIN players \ {c}

C18_Witness ==
    /\ \A c \in sockets : inbox[c] = << >>
    /\ Cardinality(sockets) >= 2
    /\ handled.event = "currentPlayers"
    /\ \E c \in sockets : clientPlayers[c] # << >>

\* The message at place i of p's channel introduces x: a snapshot that
\* holds x, or the notice of x as a new player.
Introduces(p, i, x) ==
    /\ inbox[p][i].event \in {"currentPlayers", "newPlayer"}
    /\ x \in About(inbox[p][i])

\* The message at place i of p's channel is the notice that x is gone.
Dismisses(p, i, x) ==
    /\ inbox[p][i].event = "playerDisconnected"
    /\ inbox[p][i].payload = x

\* C21: when each client connects once, a playerMoved about x reaches a peer
\* p only after an introduction of x (x is already in p's map, or a snapshot
\* holding x or newPlayer for x is ahead of it on the channel) and never
\* behind playerDisconnected for x; so every playerMoved a client handles is
\* about an id in its map, and the guard that drops it never fires.
C21_MovedBetweenIntroductionAndRemoval ==
    /\ handled.event = "playerMoved" => handled.known = handled.about
    /\ \A p \in sockets : \A i \in DOMAIN inbox[p] :
           inbox[p][i].event = "playerMoved" =>
               LET x == inbox[p][i].payload.id
               IN  /\ x # p
                   /\ \A j \in 1..(i - 1) : ~Dismisses(p, j, x)
                   /\ \/ x \in DOMAIN clientPlayers[p]
                      \/ \E j \in 1..(i - 1) : Introduces(p, j, x)

C21_Witness ==
    /\ handled.event = "playerMoved"
    /\ handled.client \in sockets
    /\ handled.known # {}
    /\ handled.about \subseteq closed
    /\ Pending(handled.client, CHOOSE x \in handled.about : TRUE)

\* C22: no client holds an entry, or a ship, for its own connection id.
C22_NoEntryForOwnId ==
    \A c \in DOMAIN clientPlayers :
        /\ c \notin DOMAIN clientPlayers[c]
        /\ ShipsOf(scene[c], c) = 0

C22_Witness ==
    /\ handled.event = "currentPlayers"
    /\ handled.client \in handled.about
    /\ handled.about # {handled.client}
    /\ DOMAIN clientPlayers[handled.client] = handled.about \ {handled.client}

\* C23: a client that handles playerMoved or playerDisconnected about an id
\* that is not a key of its players map leaves its map and its scene as they
\* were; a playerDisconnected about a known id removes that id's entry and
\* ship and leaves every other entry and ship as it was.
C23_UnknownIdIsIgnored ==
    [][/\ (handled'.event \in {"playerMoved", "playerDisconnected"}
              /\ handled'.known = {}) =>
              \A c \in DOMAIN clientPlayers :
                  clientPlayers'[c] = clientPlayers[c] /\ scene'[c] = scene[c]
       /\ (handled'.event = "playerDisconnected" /\ handled'.known # {}) =>
              LET c == handled'.client
              IN  /\ DOMAIN clientPlayers'[c] = DOMAIN clientPlayers[c] \ handled'.about
                  /\ \A k \in DOMAIN clientPlayers'[c] :
                         clientPlayers'[c][k] = clientPlayers[c][k]
                  /\ \A k \in handled'.about : ShipsOf(scene'[c], k) = 0
                  /\ \A k \in DOMAIN scene[c] \ handled'.about :
                         scene'[c][k] = scene[c][k]]_vars

C23_Witness ==
    /\ handled.event = "playerMoved"
    /\ handled.known = {}
    /\ clientPlayers[handled.client] # << >>
    /\ \A k \in DOMAIN clientPlayers[handled.client] :
           ShipsOf(scene[handled.client], k) = 1

\* C24: after a lost connection is re-established and the client has handled
\* the snapshot sent to its new id, its remote players are the keys of that
\* snapshot but its own new id.
C24_ReconnectSnapshotReplacesRemotePlayers ==
    (/\ handled.event = "currentPlayers"
     /\ handled.client \in ReconnectIds
     /\ handled.client \in DOMAIN clientPlayers) =>
        DOMAIN clientPlayers[handled.client] = handled.about \ {handled.client}

\* C25: in every client's scene each id of the players map has one ship and
\* each other id has none, and no snapshot and no newPlayer notice makes a
\* ship for an id that already has an entry.
C25_OneShipPerKnownId ==
    /\ \A c \in DOMAIN scene : \A k \in DOMAIN scene[c] :
           scene[c][k] = IF k \in DOMAIN clientPlayers[c] THEN 1 ELSE 0
    /\ handled.event \in {"currentPlayers", "newPlayer"} => handled.known = {}

====
